---- MODULE Spec2Model ----
(***************************************************************************)
(* Galton board simulation (src/galton.py): peg layout, the main loop      *)
(* (clock tick, spawner, quit polling, physics sub-steps with the          *)
(* collision callback, frame capture, timeout rule) and the post-loop      *)
(* video/audio assembly.                                                   *)
(*                                                                         *)
(* Time is the integer millisecond clock of pygame.time.get_ticks().  The  *)
(* code divides by 1000.0 to get seconds; the model keeps milliseconds, so *)
(* spawn_timer, DROP_INTERVAL and the collision timestamps are in ms and   *)
(* a comparison "t seconds <= n / FPS" is written t_ms * FPS <= 1000 * n.  *)
(* Coordinates of the layout are exact rationals: x in half-spacings       *)
(* (SCREEN_WIDTH / (2 * (LEVELS + 1))), y in rows of offset_y.             *)
(***************************************************************************)
EXTENDS Integers, Sequences, FiniteSets

\* ------------------------------------------------------------ configuration
SCREEN_WIDTH == 512
FPS == 60
SAMPLE_RATE == 44100
VELOCITY_THRESHOLD == 50
SUBSTEPS == 3
\* the literal 10000 of the timeout check
TIMEOUT_MS == 10000
\* PEG_RADIUS = int(SCREEN_WIDTH * PEG_SIZE), PEG_SIZE = 0.005
PEG_RADIUS == (SCREEN_WIDTH * 5) \div 1000
\* len(tick_waveform) = int(SAMPLE_RATE * TICK_SOUND_DURATION), duration 0.01 s
WaveLen == SAMPLE_RATE \div 100
\* clock.tick(FPS) delays until int((1 / FPS) * 1000) ms have passed since the last tick
FrameDelay == 1000 \div FPS
\* last_ball_drop_time = None (get_ticks() is never negative)
None == 0 - 1

\* ------------------------------------------------------------------ bounds
MaxBallCount == 2
MaxFrames == 3
MaxContacts == 2
MaxLayoutLevels == 11
\* configured BALL_COUNT, DROP_INTERVAL (ms) and LEVELS the runs are checked for
BallCounts == 0..MaxBallCount
DropIntervals == {0, 32, 20000}
LoopLevels == {2}
LayoutLevels == (0 - 5)..MaxLayoutLevels
\* time the environment lets pass: the set-up before start_time, the extra
\* sleep of clock.tick beyond what the frame rate needs, and the rest of a
\* tick, counted where the frame image is saved (a PNG of the whole screen:
\* at least 1 ms)
SetupTimes == {16}
TickExtras == {0, 10000}
SaveTimes == {1, 20}
\* collision timestamps (ms since start_time) the audio synthesis is checked
\* for: on and off a sample boundary, less than an envelope apart, inside and
\* beyond the run
AudioTimes == {0, 7, 16, 20, 60}
\* the length of a tick of those runs: the physics steps outlast every one of them
AudioTickLen == 61
\* vertical velocities of the ball at a contact, around the threshold
Velocities == {0 - 51, 50}
PlayOutcomes == {"ok", "raise"}

VARIABLES
    LEVELS, BALL_COUNT, DROP_INTERVAL,  \* the configuration of the run
    pc,                                 \* position in the script
    now,                                \* pygame.time.get_ticks()
    clock_last,                         \* time of the Clock's last tick
    pegs, walls,                        \* static bodies of the space, in order of creation
    start_time, running, last_ball_drop_time,
    balls_dropped, spawn_timer, dt,
    substep,                            \* space.step calls done in this tick
    step_log,                           \* the argument of each of them
    frames,                             \* frame paths: the get_ticks() of each capture
    collision_times,                    \* ms since start_time
    ticks,                              \* loop iterations started
    frame_ticks,                        \* iteration that captured each frame
    sum_dt,                             \* sum of the tick deltas so far
    spawn_log,                          \* per spawn: sum_dt at the spawn, remainder carried
    quit_seen,                          \* a QUIT event was observed
    contacts,                           \* invocations of handle_collision
    last_contact,                       \* velocity, cue outcome and result of the last one
    artifact,                           \* what the post-loop code produced
    audio_samples,                      \* the float buffer after the overlay loop
    wav_audio                           \* the int16 samples written to the wav file

vars == <<LEVELS, BALL_COUNT, DROP_INTERVAL, pc, now, clock_last, pegs, walls,
          start_time, running, last_ball_drop_time, balls_dropped, spawn_timer, dt,
          substep, step_log, frames, collision_times, ticks, frame_ticks, sum_dt, spawn_log,
          quit_seen, contacts, last_contact, artifact, audio_samples, wav_audio>>

cfgVars == <<LEVELS, BALL_COUNT, DROP_INTERVAL>>
spaceVars == <<pegs, walls>>
spawnVars == <<balls_dropped, spawn_timer, last_ball_drop_time, spawn_log>>
logVars == <<frames, frame_ticks, collision_times>>
contactVars == <<contacts, last_contact>>
audioVars == <<audio_samples, wav_audio>>

\* ------------------------------------------------------------------ helpers
Abs(x) == IF x < 0 THEN 0 - x ELSE x
Max(a, b) == IF a >= b THEN a ELSE b
Min(a, b) == IF a <= b THEN a ELSE b
\* Python's int() of the quotient a / b: truncation toward zero
TruncDiv(a, b) ==
    IF (a >= 0) = (b > 0) THEN Abs(a) \div Abs(b) ELSE 0 - (Abs(a) \div Abs(b))
RECURSIVE Flatten(_)
Flatten(ss) == IF ss = <<>> THEN <<>> ELSE Head(ss) \o Flatten(Tail(ss))

\* ------------------------------------------------------------------- layout
\* the two divisions that open the layout raise ZeroDivisionError
LayoutRaises(levels) == levels + 4 = 0 \/ levels + 1 = 0
\* int((SCREEN_WIDTH - 2 * PEG_RADIUS) / spacing_x) + 1, spacing_x = SCREEN_WIDTH / (levels + 1)
MaxPegsEven(levels) ==
    TruncDiv((SCREEN_WIDTH - 2 * PEG_RADIUS) * (levels + 1), SCREEN_WIDTH) + 1
\* variant: every row is a full row
PegsInRowAllFull(levels, row) == MaxPegsEven(levels)
PegsInRow(levels, row) ==
    IF row % 2 = 0 THEN MaxPegsEven(levels) ELSE MaxPegsEven(levels) - 1
\* x_start in half-spacings: left_margin = (SCREEN_WIDTH - (max_pegs_even - 1) * spacing_x) / 2
XStart(levels, row) ==
    IF row % 2 = 0
    THEN (levels + 1) - (MaxPegsEven(levels) - 1)
    ELSE (levels + 1) - (MaxPegsEven(levels) - 1) + 1
RowPegs(levels, row) ==
    [k \in 1..Max(PegsInRow(levels, row), 0) |->
        [x |-> XStart(levels, row) + 2 * (k - 1), row |-> row]]
PegLayout(levels) ==
    Flatten([r \in 1..Max(levels, 0) |-> RowPegs(levels, r - 1)])
\* walls_x = [0.0] + bottom_centers + [SCREEN_WIDTH], then the floor
WallLayout(levels) ==
    LET bottom_row == levels - 1
        centers == [k \in 1..Max(PegsInRow(levels, bottom_row), 0) |->
                       [kind |-> "separator",
                        x |-> XStart(levels, bottom_row) + 2 * (k - 1)]]
    IN  <<[kind |-> "separator", x |-> 0]>> \o centers
           \o <<[kind |-> "separator", x |-> 2 * (levels + 1)]>>
           \o <<[kind |-> "floor", x |-> 0]>>

\* ------------------------------------------------------------------ physics
\* variant: the whole delta is handed to every step
StepSizeWhole(delta) == [num |-> delta, den |-> 1]
\* dt / SUBSTEPS, in ms, as the fraction num / den
StepSize(delta) == [num |-> delta, den |-> SUBSTEPS]

\* ------------------------------------------------------------------ spawner
\* variant: the count of balls already dropped is not looked at
ShouldSpawnNoLimit(dropped, timer) == timer >= DROP_INTERVAL
\* variant: the accumulated time is not looked at
ShouldSpawnNoTimer(dropped, timer) == dropped < BALL_COUNT
ShouldSpawn(dropped, timer) == dropped < BALL_COUNT /\ timer >= DROP_INTERVAL
TimerAfterSpawn(timer) == timer - DROP_INTERVAL

\* ------------------------------------------------------- collision callback
\* ball_shape = shapes[0] if shapes[0].collision_type == 1 else shapes[1]
BallShape(shapes) == IF shapes[1].collision_type = 1 THEN shapes[1] ELSE shapes[2]
\* variant: a contact exactly at the threshold counts as audible
AudibleInclusive(velocity) == Abs(velocity) >= VELOCITY_THRESHOLD
Audible(velocity) == Abs(velocity) > VELOCITY_THRESHOLD
CollisionTime(t) == t - start_time
\* the arbiters of the (1, 0) handler: one ball shape, one static shape, either order
Arbiters ==
    {<<[collision_type |-> 1, vy |-> v], [collision_type |-> 0, vy |-> 0]>> : v \in Velocities}
    \cup
    {<<[collision_type |-> 0, vy |-> 0], [collision_type |-> 1, vy |-> v]>> : v \in Velocities}

\* -------------------------------------------------------------- termination
\* Python truth value of last_ball_drop_time
Truthy(v) == v # None /\ v # 0
TimedOut(t) == Truthy(last_ball_drop_time) /\ t - last_ball_drop_time > TIMEOUT_MS

\* ---------------------------------------------------------------- assembly
\* Python's round() of the quotient a / b, a >= 0, b > 0: to nearest, halves to even
PyRound(a, b) ==
    LET q == a \div b
        r == a % b
    IN  IF 2 * r < b THEN q
        ELSE IF 2 * r > b THEN q + 1
        ELSE IF q % 2 = 0 THEN q ELSE q + 1
\* variant: the index is rounded to the nearest sample
IdxStartRounded(ct) == PyRound(ct * SAMPLE_RATE, 1000)
\* idx_start = int(ct * SAMPLE_RATE), ct in seconds, in exact arithmetic (the
\* float product of the code can fall just below a whole number and lose one
\* sample, the first time at 350 ms)
IdxStart(ct) == (ct * SAMPLE_RATE) \div 1000
\* len(audio_samples) = int(SAMPLE_RATE * len(frames) / FPS) + len(tick_waveform)
BufferLen(nframes) == (SAMPLE_RATE * nframes) \div FPS + WaveLen
\* audio_samples[idx_start:idx_end] += tick_waveform raises ValueError when the
\* slice is cut short by the end of the buffer
OverlayRaises(ct, nframes) == IdxStart(ct) + WaveLen > BufferLen(nframes)
\* tick_waveform: a sine under a Hann window, |amplitude| <= 1.0.  The overlay
\* only adds amplitudes, so sample k (from 0) is stood for by the integer
\* k + 1, in units of 1 / FullScale.
FullScale == WaveLen
TickWaveform == [k \in 1..WaveLen |-> k]
\* np.zeros(n): sample j of the code is element j + 1 of the sequence
Zeros(n) == [j \in 1..n |-> 0]
\* variant: the envelope replaces what the buffer holds
OverlayOverwrites(buf, idx) ==
    [j \in 1..Len(buf) |->
        IF j > idx /\ j <= idx + WaveLen THEN TickWaveform[j - idx] ELSE buf[j]]
\* audio_samples[idx:idx + len(tick_waveform)] += tick_waveform, the slice inside the buffer
OverlayAt(buf, idx) ==
    [j \in 1..Len(buf) |->
        IF j > idx /\ j <= idx + WaveLen THEN buf[j] + TickWaveform[j - idx] ELSE buf[j]]
\* the overlay loop, up to the first event whose slice is cut short
RECURSIVE OverlayAll(_, _)
OverlayAll(buf, cts) ==
    IF cts = <<>> \/ IdxStart(Head(cts)) + WaveLen > Len(buf)
    THEN buf
    ELSE OverlayAll(OverlayAt(buf, IdxStart(Head(cts))), Tail(cts))
\* np.clip(audio_samples, -1.0, 1.0), then (audio_samples * 32767).astype(np.int16)
WavAudio(buf) ==
    [j \in 1..Len(buf) |->
        TruncDiv(Max(0 - FullScale, Min(FullScale, buf[j])) * 32767, FullScale)]

\* --------------------------------------------------------------------- init
InitWith(levelSet) ==
    /\ LEVELS \in levelSet
    /\ BALL_COUNT \in BallCounts
    /\ DROP_INTERVAL \in DropIntervals
    /\ pc = "layout"
    /\ now = 0
    /\ clock_last = 0
    /\ pegs = <<>>
    /\ walls = <<>>
    /\ start_time = 0
    /\ running = TRUE
    /\ last_ball_drop_time = None
    /\ balls_dropped = 0
    /\ spawn_timer = 0
    /\ dt = 0
    /\ substep = 0
    /\ step_log = <<>>
    /\ frames = <<>>
    /\ collision_times = <<>>
    /\ ticks = 0
    /\ frame_ticks = <<>>
    /\ sum_dt = 0
    /\ spawn_log = <<>>
    /\ quit_seen = FALSE
    /\ contacts = 0
    /\ last_contact = [vy |-> 0, play |-> "none", result |-> "none"]
    /\ artifact = [kind |-> "none"]
    /\ audio_samples = <<>>
    /\ wav_audio = <<>>

Init == InitWith(LoopLevels)
\* nondecreasing sequences over a set of clock readings, up to a length
SortedSeqs(S, n) ==
    {q \in UNION {[1..k -> S] : k \in 0..n} :
        \A i \in 1..(Len(q) - 1) : q[i] <= q[i + 1]}
\* the state at line 238 of a run of n slow ticks, each AudioTickLen ms of
\* physics steps, left on a quit event: one ball, dropped in the first tick,
\* and any collision log of that tick; nothing is assembled yet
AudioInit ==
    /\ LEVELS \in LoopLevels
    /\ BALL_COUNT = 1
    /\ DROP_INTERVAL = 0
    /\ pc = "assemble"
    /\ \E n \in 1..MaxFrames :
          /\ frames = [i \in 1..n |-> FrameDelay + AudioTickLen * i]
          /\ frame_ticks = [i \in 1..n |-> i - 1]
          /\ ticks = n
          /\ now = FrameDelay + AudioTickLen * n + 1
          /\ clock_last = FrameDelay + AudioTickLen * (n - 1)
          /\ sum_dt = clock_last
          /\ spawn_timer = clock_last
          /\ dt = IF n = 1 THEN FrameDelay ELSE AudioTickLen
    /\ collision_times \in SortedSeqs(AudioTimes, MaxContacts)
    /\ contacts = Len(collision_times)
    /\ pegs = PegLayout(LEVELS)
    /\ walls = WallLayout(LEVELS)
    /\ start_time = FrameDelay
    /\ running = FALSE
    /\ quit_seen = TRUE
    /\ last_ball_drop_time = FrameDelay
    /\ balls_dropped = 1
    /\ substep = SUBSTEPS
    /\ step_log = [i \in 1..SUBSTEPS |-> StepSize(dt)]
    /\ spawn_log = <<[at |-> FrameDelay, carry |-> FrameDelay]>>
    /\ last_contact = [vy |-> 0, play |-> "none", result |-> "none"]
    /\ artifact = [kind |-> "none"]
    /\ audio_samples = <<>>
    /\ wav_audio = <<>>
LayoutInit == InitWith(LayoutLevels)

\* ------------------------------------------------------------------ actions
\* lines 135-207: pegs, separators, floor, then the loop's variables
Layout ==
    /\ pc = "layout"
    /\ IF LayoutRaises(LEVELS)
       THEN /\ pc' = "config_error"
            /\ UNCHANGED <<now, spaceVars, start_time>>
       ELSE /\ pegs' = PegLayout(LEVELS)
            /\ walls' = WallLayout(LEVELS)
            /\ \E e \in SetupTimes : now' = now + e
            /\ start_time' = now'
            /\ pc' = "while"
    /\ UNCHANGED <<cfgVars, clock_last, running, spawnVars, dt, substep, step_log, logVars,
                   ticks, sum_dt, quit_seen, contactVars, artifact, audioVars>>

\* line 210: while running
LoopTest ==
    /\ pc = "while"
    /\ IF running
       THEN /\ Len(frames) < MaxFrames
            /\ pc' = "tick"
            /\ ticks' = ticks + 1
       ELSE /\ pc' = "assemble"
            /\ ticks' = ticks
    /\ UNCHANGED <<cfgVars, now, clock_last, spaceVars, start_time, running, spawnVars,
                   dt, substep, step_log, logVars, sum_dt, quit_seen, contactVars, artifact, audioVars>>

\* lines 211-212: dt = clock.tick(FPS) / 1000.0; spawn_timer += dt
ClockTick ==
    /\ pc = "tick"
    /\ \E extra \in TickExtras : now' = Max(now, clock_last + FrameDelay) + extra
    /\ dt' = now' - clock_last
    /\ clock_last' = now'
    /\ spawn_timer' = spawn_timer + dt'
    /\ sum_dt' = sum_dt + dt'
    /\ step_log' = <<>>
    /\ pc' = "spawn"
    /\ UNCHANGED <<cfgVars, spaceVars, start_time, running, balls_dropped,
                   last_ball_drop_time, spawn_log, substep, logVars, ticks,
                   quit_seen, contactVars, artifact, audioVars>>

\* lines 214-218
SpawnCheck ==
    /\ pc = "spawn"
    /\ IF ShouldSpawn(balls_dropped, spawn_timer)
       THEN /\ balls_dropped' = balls_dropped + 1
            /\ spawn_timer' = TimerAfterSpawn(spawn_timer)
            /\ last_ball_drop_time' = now
            /\ spawn_log' = Append(spawn_log, [at |-> sum_dt, carry |-> spawn_timer'])
       ELSE UNCHANGED spawnVars
    /\ pc' = "events"
    /\ UNCHANGED <<cfgVars, now, clock_last, spaceVars, start_time, running, dt, substep, step_log,
                   logVars, ticks, sum_dt, quit_seen, contactVars, artifact, audioVars>>

\* lines 220-222: a QUIT event is in the queue or not
PollEvents ==
    /\ pc = "events"
    /\ \E quit \in BOOLEAN :
          /\ running' = IF quit THEN FALSE ELSE running
          /\ quit_seen' = (quit_seen \/ quit)
    /\ substep' = 0
    /\ pc' = "step"
    /\ UNCHANGED <<cfgVars, now, clock_last, spaceVars, start_time, spawnVars, dt, step_log,
                   logVars, ticks, sum_dt, contactVars, artifact, audioVars>>

\* lines 76-87, called by space.step when a ball begins to touch a static shape.
\* The cue's play() returns or raises; an exception leaves the callback before
\* "return True", and the physics library then either ignores the contact and
\* goes on or lets the exception end the script.
HandleCollision ==
    /\ pc = "step"
    /\ substep < SUBSTEPS
    /\ balls_dropped > 0
    /\ contacts < MaxContacts
    /\ contacts' = contacts + 1
    /\ \E shapes \in Arbiters, play \in PlayOutcomes, propagates \in BOOLEAN :
          LET velocity == BallShape(shapes).vy
              raised == Audible(velocity) /\ play = "raise"
          IN  /\ IF Audible(velocity)
                 THEN collision_times' = Append(collision_times, CollisionTime(now))
                 ELSE collision_times' = collision_times
              /\ last_contact' =
                    [vy |-> CHOOSE v \in Velocities :
                              \E i \in 1..2 : shapes[i] = [collision_type |-> 1, vy |-> v],
                     play |-> IF Audible(velocity) THEN play ELSE "none",
                     result |-> IF raised THEN "raised" ELSE "True"]
              /\ (~raised => ~propagates)
              /\ pc' = IF raised /\ propagates THEN "callback_error" ELSE pc
    /\ UNCHANGED <<cfgVars, now, clock_last, spaceVars, start_time, running, spawnVars,
                   dt, substep, step_log, frames, frame_ticks, ticks, sum_dt, quit_seen, artifact, audioVars>>

\* lines 225-226: one space.step(dt / SUBSTEPS)
SubStep ==
    /\ pc = "step"
    /\ substep < SUBSTEPS
    /\ step_log' = Append(step_log, StepSize(dt))
    /\ substep' = substep + 1
    /\ pc' = IF substep' = SUBSTEPS THEN "capture" ELSE "step"
    /\ UNCHANGED <<cfgVars, now, clock_last, spaceVars, start_time, running, spawnVars, dt,
                   logVars, ticks, sum_dt, quit_seen, contactVars, artifact, audioVars>>

\* variant: the tick in which the quit event arrived records no frame
CaptureFrameWhileRunning ==
    /\ pc = "capture"
    /\ frames' = IF running THEN Append(frames, now) ELSE frames
    /\ frame_ticks' = IF running THEN Append(frame_ticks, ticks - 1) ELSE frame_ticks
    /\ \E e \in SaveTimes : now' = now + e
    /\ pc' = "timeout"
    /\ UNCHANGED <<cfgVars, clock_last, spaceVars, start_time, running, spawnVars, dt,
                   substep, step_log, collision_times, ticks, sum_dt, quit_seen, contactVars,
                   artifact, audioVars>>

\* lines 229-233: the frame is named by the clock, saved and appended
CaptureFrame ==
    /\ pc = "capture"
    /\ frames' = Append(frames, now)
    /\ frame_ticks' = Append(frame_ticks, ticks - 1)
    /\ \E e \in SaveTimes : now' = now + e
    /\ pc' = "timeout"
    /\ UNCHANGED <<cfgVars, clock_last, spaceVars, start_time, running, spawnVars, dt,
                   substep, step_log, collision_times, ticks, sum_dt, quit_seen, contactVars,
                   artifact, audioVars>>

\* lines 235-236
TimeoutCheck ==
    /\ pc = "timeout"
    /\ running' = IF TimedOut(now) THEN FALSE ELSE running
    /\ pc' = "while"
    /\ UNCHANGED <<cfgVars, now, clock_last, spaceVars, start_time, spawnVars, dt,
                   substep, step_log, logVars, ticks, sum_dt, quit_seen, contactVars, artifact, audioVars>>

\* lines 238-263: the video of the frames, the audio of the collision times,
\* then the combined file; the overlay loop raises before the audio is written
Assemble ==
    /\ pc = "assemble"
    /\ IF \E i \in 1..Len(collision_times) : OverlayRaises(collision_times[i], Len(frames))
       THEN /\ pc' = "audio_error"
            /\ artifact' = [kind |-> "video_only", frames |-> frames, events |-> <<>>]
       ELSE /\ pc' = "done"
            /\ artifact' = [kind |-> "combined", frames |-> frames,
                            events |-> collision_times]
    /\ UNCHANGED <<cfgVars, now, clock_last, spaceVars, start_time, running, spawnVars,
                   dt, substep, step_log, logVars, ticks, sum_dt, quit_seen, contactVars, audioVars>>

\* lines 238-263 again, with the sample buffers of lines 245-255 worked out
AssembleWithAudio ==
    /\ pc = "assemble"
    /\ audio_samples' = OverlayAll(Zeros(BufferLen(Len(frames))), collision_times)
    /\ IF \E i \in 1..Len(collision_times) : OverlayRaises(collision_times[i], Len(frames))
       THEN /\ pc' = "audio_error"
            /\ artifact' = [kind |-> "video_only", frames |-> frames, events |-> <<>>]
            /\ wav_audio' = wav_audio
       ELSE /\ pc' = "done"
            /\ artifact' = [kind |-> "combined", frames |-> frames,
                            events |-> collision_times]
            /\ wav_audio' = WavAudio(audio_samples')
    /\ UNCHANGED <<cfgVars, now, clock_last, spaceVars, start_time, running, spawnVars,
                   dt, substep, step_log, logVars, ticks, sum_dt, quit_seen, contactVars>>

Next ==
    \/ Layout
    \/ LoopTest
    \/ ClockTick
    \/ SpawnCheck
    \/ PollEvents
    \/ HandleCollision
    \/ SubStep
    \/ CaptureFrame
    \/ TimeoutCheck
    \/ Assemble

Spec == Init /\ [][Next]_vars

\* the post-loop assembly alone, with its sample buffers
AudioSpec == AudioInit /\ [][AssembleWithAudio]_vars

\* the layout alone, over a wider range of level counts
LayoutSpec == LayoutInit /\ [][Layout]_vars

\* ------------------------------------------------------------------- claims
InLoopBody == pc \in {"tick", "spawn", "events", "step", "capture", "callback_error"}
AfterLoop == pc \in {"assemble", "done", "audio_error"}

\* C1: the number of balls the spawner has created never exceeds BALL_COUNT.
C1_SpawnedNeverExceedsTotal == balls_dropped <= BALL_COUNT
\* a spawn check passed with enough accumulated time and nothing left to drop
C1_RefusedAtTotal ==
    /\ pc = "events"
    /\ BALL_COUNT > 0
    /\ balls_dropped = BALL_COUNT
    /\ spawn_timer >= DROP_INTERVAL
    /\ last_ball_drop_time # now

\* C2 as stated: the tick time between two consecutive spawns is at least DROP_INTERVAL.
C2_GapAtLeastInterval ==
    \A i \in 1..(Len(spawn_log) - 1) :
        spawn_log[i + 1].at - spawn_log[i].at >= DROP_INTERVAL
\* C2 amended: the tick time between two consecutive spawns plus the remainder
\* the earlier spawn carried forward is at least DROP_INTERVAL, the first spawn
\* comes after DROP_INTERVAL, and so the n-th after n * DROP_INTERVAL.
C2_GapPlusCarryAtLeastInterval ==
    /\ \A i \in 1..(Len(spawn_log) - 1) :
          spawn_log[i + 1].at - spawn_log[i].at + spawn_log[i].carry >= DROP_INTERVAL
    /\ \A i \in 1..Len(spawn_log) : spawn_log[i].at >= i * DROP_INTERVAL
\* two spawns closer than DROP_INTERVAL, the second paid for by the carried remainder
C2_SpawnOnCarry ==
    /\ Len(spawn_log) >= 2
    /\ DROP_INTERVAL > 0
    /\ spawn_log[2].at - spawn_log[1].at < DROP_INTERVAL
    /\ spawn_log[1].carry > 0

\* C3 in the form a finite run decides: once every configured ball is dropped
\* and more than the timeout has passed since the last drop (since start_time
\* when there was none to drop), the timeout check stops the loop.
C3_TimeoutStopsLoop ==
    [][(/\ pc = "timeout"
        /\ pc' = "while"
        /\ balls_dropped = BALL_COUNT
        /\ now - (IF balls_dropped = 0 THEN start_time ELSE last_ball_drop_time)
              > TIMEOUT_MS)
       => ~running']_vars

\* C4: with BALL_COUNT = 0 the loop is over after its first tick, with an
\* empty collision log.
C4_ZeroBallsStopsAtOnce ==
    (BALL_COUNT = 0 /\ pc = "while" /\ ticks >= 1)
        => (~running /\ collision_times = <<>>)

\* C5: when the loop is over, every collision timestamp t has
\* 0 <= t <= len(frames) / FPS.
C5_TimestampsWithinRun ==
    AfterLoop =>
        \A i \in 1..Len(collision_times) :
            /\ collision_times[i] >= 0
            /\ collision_times[i] * FPS <= 1000 * Len(frames)

\* C6: a call of the collision callback appends exactly one timestamp when the
\* ball's |velocity.y| is above VELOCITY_THRESHOLD and none otherwise; no other
\* step changes the collision log.
C6_OneEventPerAudibleContact ==
    [][IF contacts' # contacts
       THEN IF Abs(last_contact'.vy) > VELOCITY_THRESHOLD
            THEN /\ Len(collision_times') = Len(collision_times) + 1
                 /\ SubSeq(collision_times', 1, Len(collision_times)) = collision_times
            ELSE collision_times' = collision_times
       ELSE collision_times' = collision_times]_vars
\* two contacts so far: one above the threshold, logged, and one at it, not logged
C6_OneLoggedOneSilent ==
    /\ contacts = 2
    /\ Len(collision_times) = 1
    /\ Abs(last_contact.vy) = VELOCITY_THRESHOLD

\* C7: there is one frame per tick executed, frame i belongs to tick i
\* (counted from 0), and no two frames are the same image file.
C7_OneFramePerTick ==
    /\ Len(frames) = (IF InLoopBody THEN ticks - 1 ELSE ticks)
    /\ Len(frame_ticks) = Len(frames)
    /\ \A i \in 1..Len(frame_ticks) : frame_ticks[i] = i - 1
    /\ \A i, j \in 1..Len(frames) : i # j => frames[i] # frames[j]
\* several ticks done, the last of them the one that saw the quit event
C7_FramesAfterQuit ==
    /\ pc = "assemble"
    /\ quit_seen
    /\ Len(frames) >= 2

\* C8: when the loop was left on a quit event, the post-loop code ends with the
\* combined artifact made of all frames and all collision events captured.
C8_QuitStillAssembles ==
    (quit_seen /\ pc \in {"done", "audio_error"})
        => /\ pc = "done"
           /\ artifact = [kind |-> "combined", frames |-> frames,
                          events |-> collision_times]

\* C9: with LEVELS < 1 the layout fails and no peg or wall is added.
C9_InvalidLevelsRejected ==
    (LEVELS < 1 /\ pc # "layout")
        => (pc = "config_error" /\ pegs = <<>> /\ walls = <<>>)

\* C10: when the audio cue of a contact fails, the event is in the log, the
\* callback has returned True and the script goes on.
C10_CueFailureIsHarmless ==
    last_contact.play = "raise"
        => /\ last_contact.result = "True"
           /\ pc # "callback_error"
           /\ collision_times # <<>>

\* the sample index a timestamp falls in, and the nearest one
SampleFloor(ct) == (ct * (SAMPLE_RATE \div 100)) \div 10
SampleNearest(ct) == PyRound(ct * (SAMPLE_RATE \div 100), 10)
\* the sum of the envelopes of the events 1..n at sample j, event i starting at start[i]
RECURSIVE EnvelopeSum(_, _, _)
EnvelopeSum(start, n, j) ==
    IF n = 0 THEN 0
    ELSE EnvelopeSum(start, n - 1, j)
         + (IF start[n] <= j /\ j < start[n] + WaveLen THEN (j - start[n]) + 1 ELSE 0)
\* the buffer holds, sample by sample, the sum of the envelopes started at start[i]
BufferIsSumOfEnvelopes(start) ==
    /\ Len(audio_samples) * FPS = SAMPLE_RATE * Len(frames) + WaveLen * FPS
    /\ \A j \in 0..(Len(audio_samples) - 1) :
          audio_samples[j + 1] = EnvelopeSum(start, Len(collision_times), j)

C12_RowsAlternate ==
    (LEVELS >= 1 /\ pc # "layout")
        => \E m \in 1..(LEVELS + 2) :
              /\ (m - 1) * SCREEN_WIDTH <= (SCREEN_WIDTH - 2 * PEG_RADIUS) * (LEVELS + 1)
              /\ (SCREEN_WIDTH - 2 * PEG_RADIUS) * (LEVELS + 1) < m * SCREEN_WIDTH
              /\ \A r \in 0..(LEVELS - 1) :
                    LET inRow == {i \in DOMAIN pegs : pegs[i].row = r}
                        count == IF r % 2 = 0 THEN m ELSE m - 1
                        first == (LEVELS + 1) - (m - 1) + (r % 2)
                    IN  /\ Cardinality(inRow) = count
                        /\ {pegs[i].x : i \in inRow}
                              = {first + 2 * k : k \in 0..(count - 1)}
              /\ Len(pegs) = m * ((LEVELS + 1) \div 2) + (m - 1) * (LEVELS \div 2)
              /\ \A i, j \in DOMAIN pegs : i # j => pegs[i] # pegs[j]
\* a board of three rows: 4, 3 and 4 pegs
C12_ThreeRowsLaidOut ==
    /\ pc = "while"
    /\ LEVELS = 3
    /\ Len(pegs) = 11
    /\ pegs[4].row = 0
    /\ pegs[5] = [x |-> pegs[1].x + 1, row |-> 1]
    /\ pegs[8].row = 2

\* every step made so far in this tick was handed dt / SUBSTEPS
EqualSubIntervals ==
    \A i \in DOMAIN step_log :
        step_log[i].num * SUBSTEPS = dt * step_log[i].den
\* no step before the spawn check is over, SUBSTEPS of them when the frame is
\* captured, the frame of this tick not yet there at that point
StepsBetweenSpawnAndCapture ==
    /\ pc \in {"spawn", "events"} => step_log = <<>>
    /\ pc = "step" => Len(step_log) < SUBSTEPS
    /\ pc \in {"capture", "timeout"} => Len(step_log) = SUBSTEPS
    /\ pc = "capture" => Len(frames) = ticks - 1
    /\ pc = "timeout" => Len(frames) = ticks

\* C13 as stated: every tick makes SUBSTEPS steps of dt / SUBSTEPS between the
\* spawn check and the frame capture, and dt is at most 1 / FPS seconds.
C13_StepsOfCappedDelta ==
    InLoopBody
        => /\ StepsBetweenSpawnAndCapture
           /\ EqualSubIntervals
           /\ pc # "tick" => dt * FPS <= 1000

\* C13, the part the code keeps: every tick that reaches its frame capture has made SUBSTEPS
\* steps of dt / SUBSTEPS between the spawn check and the capture; dt is what
\* clock.tick(FPS) returns, at least the frame delay and with no upper bound; a
\* tick ended by an exception out of the collision callback has made fewer
\* steps and captures no frame.
C13_StepsOfTickDelta ==
    InLoopBody
        => /\ StepsBetweenSpawnAndCapture
           /\ EqualSubIntervals
           /\ pc # "tick" => dt >= FrameDelay
           /\ pc = "callback_error"
                 => (Len(step_log) < SUBSTEPS /\ Len(frames) = ticks - 1)
\* a slow second tick: its steps are made with a delta above 1 / FPS
C13_LongTickStepped ==
    /\ pc = "capture"
    /\ ticks = 2
    /\ dt * FPS > 1000
    /\ Len(step_log) = SUBSTEPS
    /\ step_log[SUBSTEPS] = [num |-> dt, den |-> SUBSTEPS]

\* C14: when the timeout check ends the loop, every configured ball has been
\* dropped.
C14_TimeoutOnlyAfterLastBall ==
    [][(pc = "timeout" /\ running /\ ~running') => balls_dropped = BALL_COUNT]_vars

====
